---- MODULE Spec2Model ----
(***************************************************************************)
(* JobTradeSasa: the job lifecycle (create / accept / status update /      *)
(* detail), the message store, the WebSocket chat relay and the ratings,   *)
(* modelled from server/routes.ts (the revision with updateJobStatusSchema *)
(* and the job-detail access check), server/storage.ts and                 *)
(* shared/schema.ts.                                                       *)
(***************************************************************************)
EXTENDS Integers, Sequences, FiniteSets, TLC

\* ---------------------------------------------------------------- bounds
\* HTTP requests handled in one run.
MaxRequests == 4

\* Messages sent (over HTTP or over the relay) in one run.
MaxMessages == 2

\* Largest value of the database clock.
MaxClock == 1

\* Rating submissions that pass validation in one run.
MaxRatings == 3

\* ---------------------------------------------------------------- schema
NULL == "null"

\* users table: two requester-role and two provider-role accounts.
Users == {"r1", "r2", "p1", "p2"}

\* users table: an admin-role account.
Admins == {"a1"}

\* users.role, as carried in the bearer token of the authenticated caller.
Role ==
  [u \in Users \cup Admins |->
     IF u \in {"r1", "r2"} THEN "requester"
     ELSE IF u \in Admins THEN "admin"
     ELSE "provider"]

Providers == {u \in Users : Role[u] = "provider"}

\* jobStatusEnum
JobStatusEnum ==
  {"open", "offered", "accepted", "enroute", "onsite", "completed", "cancelled"}

\* Columns of the jobs table that the handlers read or write (title stands
\* for the required text columns).
JobColumns == {"requesterId", "providerId", "status", "title"}

\* Column defaults of the jobs table: status defaults to 'open', providerId
\* is nullable with no default.
JobDefault ==
  [c \in JobColumns |-> IF c = "status" THEN "open" ELSE NULL]

\* ------------------------------------------------------- request bodies
\* Keys insertJobSchema declares (z.object strips every other key).
InsertJobKeys ==
  {"title", "description", "categoryId", "latitude", "longitude", "address",
   "urgency", "preferredTime", "photos"}

\* insertJobSchema.parse succeeds when the required text is present and
\* non-empty (title: z.string().min(1)).
InsertJobValid(body) == "title" \in DOMAIN body /\ body["title"] # ""

\* Mutant: the schema lets undeclared keys through (passthrough).
InsertJobParsePassthrough(body) == body

\* The value insertJobSchema.parse returns: the declared keys only.
InsertJobParse(body) ==
  [k \in (DOMAIN body) \cap InsertJobKeys |-> body[k]]

\* updateJobStatusSchema: { status: z.enum([...]) }.
UpdateJobStatusValid(body) ==
  "status" \in DOMAIN body /\ body["status"] \in JobStatusEnum

\* Mutant: the body passed to storage.updateJob as it came.
UpdateJobStatusParsePassthrough(body) == body

UpdateJobStatusParse(body) ==
  [k \in (DOMAIN body) \cap {"status"} |-> body[k]]

\* Bodies a client may send to POST /api/jobs: the form's body, an empty
\* title, a missing title, and bodies that smuggle status / providerId /
\* requesterId.
CreateBodies ==
  { [title |-> "Fix sink"],
    [title |-> ""],
    [status |-> "completed"],
    [title |-> "Fix sink", status |-> "completed"],
    [title |-> "Fix sink", providerId |-> "p1", requesterId |-> "r2"],
    [title |-> "Fix sink", status |-> "accepted", providerId |-> "p2",
     requesterId |-> "r2"] }

\* Columns of the messages table.
MessageColumns == {"id", "jobId", "senderId", "messageText", "createdAt"}

\* Keys insertMessageSchema declares.
InsertMessageKeys == {"jobId", "messageText", "attachments", "voiceNoteUrl"}

\* insertMessageSchema.parse succeeds when jobId is present (a well-formed
\* uuid, of a stored job or not) and messageText is non-empty.
InsertMessageValid(body) ==
  /\ "jobId" \in DOMAIN body
  /\ "messageText" \in DOMAIN body
  /\ body["messageText"] # 0

\* The value insertMessageSchema.parse returns: the declared keys only.
InsertMessageParse(body) ==
  [k \in (DOMAIN body) \cap InsertMessageKeys |-> body[k]]

\* Bodies / relay payloads a client may send for job j as its n-th message
\* (the text of the n-th message is n, 0 is the empty text): the chat
\* view's body, one that also carries a senderId, and one with empty text.
MessageBodies(j, n) ==
  { [jobId |-> j, messageText |-> n],
    [jobId |-> j, messageText |-> n, senderId |-> "r2"],
    [jobId |-> j, messageText |-> 0] }

\* Bodies a client may send to PATCH /api/jobs/:id.
PatchBodies ==
  { [status |-> s] : s \in JobStatusEnum \cup {"bogus"} }
    \cup { [providerId |-> "p2"],
           [status |-> "cancelled", providerId |-> "p2"] }

\* ----------------------------------------------------------------- state
VARIABLES
  jobs,       \* jobs table: sequence of rows, a job's id is its index
  inflight,   \* accept requests past the role check, awaiting the UPDATE
  acceptLog,  \* history: responses given to accept requests
  lastOp,     \* history: the request answered by the last step
  nReq,       \* HTTP requests received so far
  messages,   \* messages table: sequence of rows in insertion order
  tasks,      \* message handlers suspended at an await
  now,        \* the database clock
  nMsg,       \* messages sent so far
  sent,       \* history: the messages whose send succeeded, and over what
  connState,  \* per WebSocket: "idle" (not yet connected), "open", "closed"
  connUser,   \* per WebSocket: the connection handler's userId variable
  clients,    \* the registry: user id -> WebSocket, NULL when absent
  pushed,     \* per WebSocket: the messages pushed to it (text, addressee), in order
  ratings,    \* ratings table: sequence of rows in insertion order
  ratingAverage, \* providers.rating_average per provider, in hundredths
  rateTasks,  \* rating handlers suspended at an await
  passwordHash \* users.password_hash per user

jobVars == <<jobs, inflight, acceptLog>>
msgVars == <<messages, tasks, now, nMsg, sent>>
wsVars == <<connState, connUser, clients, pushed>>
rateVars == <<ratings, ratingAverage, rateTasks>>
userVars == <<passwordHash>>
vars == <<jobVars, lastOp, nReq, msgVars, wsVars, rateVars, userVars>>

\* The WebSocket connections of a run.
Conns == {"c1", "c2"}

NoBody == [none |-> NULL]
NoOp == [op |-> "none", user |-> NULL, job |-> 0, code |-> 0, body |-> NoBody]

\* A JSON body that is an array: the array under the field rows, so that
\* every body is an object.
Rows(result) == [rows |-> result]

Resp(op, u, j, code, body) ==
  [op |-> op, user |-> u, job |-> j, code |-> code, body |-> body]

\* Job ids a request may name: every stored job and one id that is not stored.
JobIdsInRequests == 1..(Len(jobs) + 1)

\* No message, no handler in flight, no connection.
InitChatVars ==
  /\ messages = << >>
  /\ tasks = {}
  /\ now = 0
  /\ nMsg = 0
  /\ sent = {}
  /\ connState = [c \in Conns |-> "idle"]
  /\ connUser = [c \in Conns |-> NULL]
  /\ clients = [u \in Users |-> NULL]
  /\ pushed = [c \in Conns |-> << >>]

\* Values of users.password_hash (bcrypt digests).
Hashes == {"h1", "h2"}

\* Every account, whatever its role.
Accounts == Users \cup Admins

\* The users table with every password hash equal to the first digest.
InitUserVars == passwordHash = [u \in Accounts |-> "h1"]

\* No rating; rating_average has its column default "0".
InitRatingVars ==
  /\ ratings = << >>
  /\ ratingAverage = [p \in Providers |-> 0]
  /\ rateTasks = {}

Init ==
  /\ jobs = << >>
  /\ inflight = {}
  /\ acceptLog = {}
  /\ lastOp = NoOp
  /\ nReq = 0
  /\ InitChatVars
  /\ InitRatingVars
  /\ InitUserVars

\* ------------------------------------------------------------- storage
\* DatabaseStorage.createJob: INSERT ... VALUES(insertJob) RETURNING *.
createJob(js, insertJob) ==
  Append(js, [c \in JobColumns |->
                IF c \in DOMAIN insertJob THEN insertJob[c] ELSE JobDefault[c]])

\* DatabaseStorage.updateJob: UPDATE jobs SET data WHERE id = :id.
updateJob(js, id, data) ==
  [i \in DOMAIN js |->
     IF i = id
       THEN [c \in JobColumns |-> IF c \in DOMAIN data THEN data[c] ELSE js[i][c]]
       ELSE js[i]]

\* DatabaseStorage.acceptJob: UPDATE jobs SET provider_id = :providerId,
\* status = 'accepted' WHERE id = :jobId.
acceptJob(js, jobId, providerId) ==
  [i \in DOMAIN js |->
     IF i = jobId
       THEN [js[i] EXCEPT !["providerId"] = providerId, !["status"] = "accepted"]
       ELSE js[i]]

\* RETURNING yields a row exactly when the WHERE clause matched one.
Returned(js, id) == id \in DOMAIN js

\* -------------------------------------------------------------- routes
\* Mutant: POST /api/jobs without its role check.
MayCreateAnyRole(u) == TRUE

\* The role check of POST /api/jobs.
MayCreate(u) == Role[u] = "requester"

\* The role check of POST /api/jobs/:id/accept.
MayAccept(u) == Role[u] = "provider"

\* POST /api/jobs
CreateJobRoute(u, body) ==
  /\ nReq < MaxRequests
  /\ nReq' = nReq + 1
  /\ UNCHANGED <<inflight, acceptLog, msgVars, wsVars, rateVars, userVars>>
  /\ IF ~MayCreate(u)
       THEN /\ jobs' = jobs
            /\ lastOp' = Resp("create", u, 0, 403, body)
       ELSE IF ~InsertJobValid(body)
         THEN /\ jobs' = jobs
              /\ lastOp' = Resp("create", u, 0, 400, body)
         ELSE LET validatedData == InsertJobParse(body)
                  insertJob == [k \in (DOMAIN validatedData) \cup {"requesterId"} |->
                                  IF k = "requesterId" THEN u ELSE validatedData[k]]
              IN /\ jobs' = createJob(jobs, insertJob)
                 /\ lastOp' = Resp("create", u, Len(jobs) + 1, 201, body)

\* PATCH /api/jobs/:id
UpdateJobRoute(u, j, body) ==
  /\ nReq < MaxRequests
  /\ nReq' = nReq + 1
  /\ UNCHANGED <<inflight, acceptLog, msgVars, wsVars, rateVars, userVars>>
  /\ IF ~UpdateJobStatusValid(body)
       THEN /\ jobs' = jobs
            /\ lastOp' = Resp("patch", u, j, 400, body)
       ELSE /\ jobs' = updateJob(jobs, j, UpdateJobStatusParse(body))
            /\ lastOp' = Resp("patch", u, j, IF Returned(jobs, j) THEN 200 ELSE 404, body)

\* POST /api/jobs/:id/accept, up to the await of storage.acceptJob.
AcceptJobRoute(u, j) ==
  /\ nReq < MaxRequests
  /\ <<u, j>> \notin inflight
  /\ nReq' = nReq + 1
  /\ jobs' = jobs
  /\ UNCHANGED <<msgVars, wsVars, rateVars, userVars>>
  /\ IF ~MayAccept(u)
       THEN /\ lastOp' = Resp("accept", u, j, 403, NoBody)
            /\ acceptLog' = acceptLog \cup
                 {[job |-> j, user |-> u, code |-> 403, stored |-> j \in DOMAIN jobs]}
            /\ inflight' = inflight
       ELSE /\ lastOp' = NoOp
            /\ acceptLog' = acceptLog
            /\ inflight' = inflight \cup {<<u, j>>}

\* POST /api/jobs/:id/accept, from the UPDATE of storage.acceptJob to the
\* response.
AcceptJobDb(u, j) ==
  /\ <<u, j>> \in inflight
  /\ inflight' = inflight \ {<<u, j>>}
  /\ jobs' = acceptJob(jobs, j, u)
  /\ LET code == IF Returned(jobs, j) THEN 200 ELSE 404
     IN /\ lastOp' = Resp("accept", u, j, code, NoBody)
        /\ acceptLog' = acceptLog \cup
             {[job |-> j, user |-> u, code |-> code, stored |-> j \in DOMAIN jobs]}
  /\ UNCHANGED <<nReq, msgVars, wsVars, rateVars, userVars>>

CreateJob == \E u \in Users, body \in CreateBodies : CreateJobRoute(u, body)
UpdateJob == \E u \in Users, j \in JobIdsInRequests, body \in PatchBodies :
               UpdateJobRoute(u, j, body)
AcceptJobRequest == \E u \in Users, j \in JobIdsInRequests : AcceptJobRoute(u, j)
AcceptJobUpdate == \E p \in inflight : AcceptJobDb(p[1], p[2])

Next == CreateJob \/ UpdateJob \/ AcceptJobRequest \/ AcceptJobUpdate

Spec == Init /\ [][Next]_vars

\* Create and accept requests only: the interleavings of accept requests on
\* jobs that nothing but an accept has touched.
NextAccept == CreateJob \/ AcceptJobRequest \/ AcceptJobUpdate

SpecAccept == Init /\ [][NextAccept]_vars

\* ----------------------------------------------------------- job detail
\* Mutant: the revision of GET /api/jobs/:id without the access check.
MayViewAnyJob(job, u) == TRUE

\* The access check of GET /api/jobs/:id: the requester, the provider and an
\* admin see the job in every status, everybody else while it is open.
MayView(job, u) ==
  ~ (/\ job["requesterId"] # u
     /\ job["providerId"] # u
     /\ Role[u] # "admin"
     /\ job["status"] # "open")

\* GET /api/jobs/:id
GetJobRoute(u, j) ==
  /\ nReq < MaxRequests
  /\ nReq' = nReq + 1
  /\ UNCHANGED <<jobVars, msgVars, wsVars, rateVars, userVars>>
  /\ IF j \notin DOMAIN jobs
       THEN lastOp' = Resp("detail", u, j, 404, NoBody)
       ELSE IF ~MayView(jobs[j], u)
         THEN lastOp' = Resp("detail", u, j, 403, NoBody)
         ELSE lastOp' = Resp("detail", u, j, 200, jobs[j])

GetJob == \E u \in Users \cup Admins, j \in JobIdsInRequests : GetJobRoute(u, j)

NextDetail ==
  CreateJob \/ UpdateJob \/ AcceptJobRequest \/ AcceptJobUpdate \/ GetJob

\* The job routes together with the job-detail fetch.
SpecDetail == Init /\ [][NextDetail]_vars

\* ------------------------------------------------------ message storage
\* Mutant: the query without its ORDER BY (rows come back in heap order).
getMessagesUnordered(ms, jobId) ==
  { SelectSeq(ms, LAMBDA m : m["jobId"] = jobId) }

\* Mutant: the latest-message query of getConversations (ORDER BY created_at
\* DESC LIMIT 1) used for the history.
getMessagesLatestOnly(ms, jobId) ==
  LET match == {i \in DOMAIN ms : ms[i]["jobId"] = jobId}
  IN IF match = {} THEN { << >> }
     ELSE { <<ms[i]>> : i \in {i \in match :
               \A k \in match : ms[k]["createdAt"] <= ms[i]["createdAt"]} }

\* DatabaseStorage.getMessages: SELECT ... WHERE job_id = :jobId ORDER BY
\* created_at ASC.  The order of rows with equal created_at is not fixed by
\* the query, so the operator yields every result the query may return.
getMessages(ms, jobId) ==
  LET match == {i \in DOMAIN ms : ms[i]["jobId"] = jobId}
      n == Cardinality(match)
      orders == {f \in [1..n -> match] :
                   /\ \A a, b \in 1..n : a # b => f[a] # f[b]
                   /\ \A a, b \in 1..n :
                        a < b => ms[f[a]]["createdAt"] <= ms[f[b]]["createdAt"]}
  IN { [k \in 1..n |-> ms[f[k]]] : f \in orders }

\* DatabaseStorage.createMessage: INSERT ... VALUES(insertMessage) RETURNING *
\* (id is generated, created_at defaults to the statement's now()).
createMessage(ms, insertMessage, createdAt) ==
  Append(ms, [c \in MessageColumns |->
                IF c \in DOMAIN insertMessage THEN insertMessage[c]
                ELSE IF c = "id" THEN Len(ms) + 1
                ELSE IF c = "createdAt" THEN createdAt
                ELSE NULL])

\* messages.job_id references jobs.id: the INSERT fails for a job that is
\* not stored.
MessageForeignKeyHolds(js, insertMessage) == insertMessage["jobId"] \in DOMAIN js

\* Mutant: the sender is taken from the payload when it names one.
MessageValuesPayloadSender(body, senderId) ==
  LET validatedData == InsertMessageParse(body)
  IN [k \in (DOMAIN validatedData) \cup {"senderId"} |->
        IF k = "senderId"
          THEN (IF "senderId" \in DOMAIN body THEN body["senderId"] ELSE senderId)
          ELSE validatedData[k]]

\* The values handed to storage.createMessage: the parsed body with
\* senderId set (last, so it overrides) to the authenticated id.
MessageValues(body, senderId) ==
  LET validatedData == InsertMessageParse(body)
  IN [k \in (DOMAIN validatedData) \cup {"senderId"} |->
        IF k = "senderId" THEN senderId ELSE validatedData[k]]

NoJob == [c \in JobColumns |-> NULL]

\* The senderId a request body or relay payload carries, NULL when none.
ClaimedSender(body) ==
  IF "senderId" \in DOMAIN body THEN body["senderId"] ELSE NULL

\* A handler suspended at an await: kind is "http" (POST /api/messages) or
\* "ws" (a relay chat frame); pc is the await it is suspended at; auth is
\* the identity the request or frame arrived under and claimed the senderId
\* its payload carried.
Task(kind, c, auth, body, pc, job) ==
  [kind |-> kind, conn |-> c, auth |-> auth, claimed |-> ClaimedSender(body),
   values |-> MessageValues(body, auth), createdAt |-> now, pc |-> pc,
   job |-> job]

\* The record of a send that succeeded: storage.createMessage returned the
\* row to the handler t.
Sent(t) ==
  [text |-> t.values["messageText"], jobId |-> t.values["jobId"], via |-> t.kind,
   auth |-> t.auth, claimed |-> t.claimed]

\* The database clock advances.
Tick ==
  /\ now < MaxClock
  /\ now' = now + 1
  /\ lastOp' = NoOp
  /\ UNCHANGED <<jobVars, rateVars, nReq, messages, tasks, nMsg, sent, wsVars, userVars>>

\* POST /api/messages, up to the await of storage.createMessage.
SendMessageRoute(u, body) ==
  /\ nMsg < MaxMessages
  /\ UNCHANGED <<jobVars, rateVars, nReq, messages, now, sent, wsVars, userVars>>
  /\ IF ~InsertMessageValid(body)
       THEN /\ lastOp' = Resp("send", u, 0, 400, body)
            /\ UNCHANGED <<tasks, nMsg>>
       ELSE /\ tasks' = tasks \cup {Task("http", NULL, u, body, "insert", NoJob)}
            /\ nMsg' = nMsg + 1
            /\ lastOp' = NoOp

\* POST /api/messages, from the INSERT of storage.createMessage to the
\* response (201, or 400 from the catch block when the INSERT throws).
SendMessageDb(t) ==
  /\ t \in tasks /\ t.kind = "http" /\ t.pc = "insert"
  /\ tasks' = tasks \ {t}
  /\ UNCHANGED <<jobVars, rateVars, nReq, now, nMsg, wsVars, userVars>>
  /\ IF MessageForeignKeyHolds(jobs, t.values)
       THEN /\ messages' = createMessage(messages, t.values, t.createdAt)
            /\ sent' = sent \cup {Sent(t)}
            /\ lastOp' = Resp("send", t.auth, t.values["jobId"], 201, NoBody)
       ELSE /\ UNCHANGED <<messages, sent>>
            /\ lastOp' = Resp("send", t.auth, t.values["jobId"], 400, NoBody)

\* GET /api/messages/:jobId (the handler does not read the caller's
\* identity); the response body is the list storage.getMessages returns.
GetMessagesRoute(j) ==
  /\ \E result \in getMessages(messages, j) :
       lastOp' = Resp("history", NULL, j, 200, Rows(result))
  /\ UNCHANGED <<jobVars, rateVars, nReq, msgVars, wsVars, rateVars, userVars>>

\* ------------------------------------------------------------ the relay
\* wss.on('connection'): a new socket, its handler's userId is null.
WsConnect(c) ==
  /\ connState[c] = "idle"
  /\ connState' = [connState EXCEPT ![c] = "open"]
  /\ connUser' = [connUser EXCEPT ![c] = NULL]
  /\ lastOp' = NoOp
  /\ UNCHANGED <<jobVars, rateVars, nReq, msgVars, clients, pushed, userVars>>

\* Mutant: an auth frame that leaves an existing registry entry in place.
WsAuthFrameKeepsFirst(c, uid) ==
  /\ connState[c] = "open"
  /\ connUser' = [connUser EXCEPT ![c] = uid]
  /\ clients' = IF uid # NULL /\ clients[uid] = NULL
                  THEN [clients EXCEPT ![uid] = c] ELSE clients
  /\ lastOp' = NoOp
  /\ UNCHANGED <<jobVars, rateVars, nReq, msgVars, connState, pushed, userVars>>

\* An {type: 'auth', userId} frame: userId = data.userId; if (userId)
\* clients.set(userId, ws).  The id is the client's assertion; uid = NULL
\* stands for a frame without a (truthy) userId.
WsAuthFrame(c, uid) ==
  /\ connState[c] = "open"
  /\ connUser' = [connUser EXCEPT ![c] = uid]
  /\ clients' = IF uid # NULL THEN [clients EXCEPT ![uid] = c] ELSE clients
  /\ lastOp' = NoOp
  /\ UNCHANGED <<jobVars, rateVars, nReq, msgVars, connState, pushed, userVars>>

\* Mutant: a message branch without the userId test.
WsMessageFrameNoUserIdTest(c, body) ==
  /\ connState[c] = "open"
  /\ lastOp' = NoOp
  /\ UNCHANGED <<jobVars, rateVars, nReq, messages, now, sent, connState,
                 connUser, clients, pushed, userVars>>
  /\ IF ~InsertMessageValid(body)
       THEN UNCHANGED <<tasks, nMsg>>
       ELSE /\ nMsg < MaxMessages
            /\ nMsg' = nMsg + 1
            /\ tasks' = tasks \cup
                 {Task("ws", c, connUser[c], body, "insert", NoJob)}

\* A {type: 'message', payload} frame, up to the await of
\* storage.createMessage.  Without a userId the frame is ignored (lastOp
\* keeps the ignored frame's payload); a payload the schema rejects is
\* logged.
WsMessageFrame(c, body) ==
  /\ connState[c] = "open"
  /\ lastOp' = IF connUser[c] = NULL THEN Resp("frame", NULL, 0, 0, body) ELSE NoOp
  /\ UNCHANGED <<jobVars, rateVars, nReq, messages, now, sent, connState,
                 connUser, clients, pushed, userVars>>
  /\ IF connUser[c] = NULL \/ ~InsertMessageValid(body)
       THEN UNCHANGED <<tasks, nMsg>>
       ELSE /\ nMsg < MaxMessages
            /\ nMsg' = nMsg + 1
            /\ tasks' = tasks \cup
                 {Task("ws", c, connUser[c], body, "insert", NoJob)}

\* The relay handler from the INSERT of storage.createMessage to the await
\* of storage.getJob; when the INSERT throws the handler logs and ends.
WsStoreMessage(t) ==
  /\ t \in tasks /\ t.kind = "ws" /\ t.pc = "insert"
  /\ lastOp' = NoOp
  /\ UNCHANGED <<jobVars, rateVars, nReq, now, nMsg, wsVars, userVars>>
  /\ IF MessageForeignKeyHolds(jobs, t.values)
       THEN /\ messages' = createMessage(messages, t.values, t.createdAt)
            /\ sent' = sent \cup {Sent(t)}
            /\ tasks' = (tasks \ {t}) \cup {[t EXCEPT !.pc = "getJob"]}
       ELSE /\ UNCHANGED <<messages, sent>>
            /\ tasks' = tasks \ {t}

\* The recipient the relay handler computes from the job it read and the
\* current value of the connection's userId (NULL: nobody).
OtherUserId(job, userId) ==
  IF job["requesterId"] = userId THEN job["providerId"]
  ELSE IF job["providerId"] = userId THEN job["requesterId"]
  ELSE NULL

\* The end of the relay handler: the pushes after the stored message with
\* text n, sent on connection c, went to the recipient's registered socket
\* when that socket is open (to records whom the handler addressed).
Forwarded(job, c, n) ==
  LET otherUserId == OtherUserId(job, connUser[c])
  IN IF /\ otherUserId # NULL
        /\ clients[otherUserId] # NULL
        /\ connState[clients[otherUserId]] = "open"
       THEN [pushed EXCEPT ![clients[otherUserId]] =
                              Append(@, [text |-> n, to |-> otherUserId])]
       ELSE pushed

\* The relay handler at storage.getJob: the job row is read.  A job with a
\* provider costs getJob a second query (the provider's user row), and the
\* handler goes on when that has returned; a job without one lets the
\* handler go on at once.
WsGetJob(t) ==
  /\ t \in tasks /\ t.kind = "ws" /\ t.pc = "getJob"
  /\ lastOp' = NoOp
  /\ UNCHANGED <<jobVars, rateVars, nReq, messages, now, nMsg, sent, connState, connUser,
                 clients, userVars>>
  /\ IF t.values["jobId"] \notin DOMAIN jobs
       THEN tasks' = tasks \ {t} /\ pushed' = pushed
       ELSE LET job == jobs[t.values["jobId"]]
            IN IF job["providerId"] = NULL
                 THEN /\ tasks' = tasks \ {t}
                      /\ pushed' = Forwarded(job, t.conn, t.values["messageText"])
                 ELSE /\ tasks' = (tasks \ {t}) \cup
                                    {[t EXCEPT !.pc = "forward", !.job = job]}
                      /\ pushed' = pushed

\* The relay handler after storage.getJob: the stored message is sent to the
\* recipient.
WsForward(t) ==
  /\ t \in tasks /\ t.kind = "ws" /\ t.pc = "forward"
  /\ tasks' = tasks \ {t}
  /\ lastOp' = NoOp
  /\ pushed' = Forwarded(t.job, t.conn, t.values["messageText"])
  /\ UNCHANGED <<jobVars, rateVars, nReq, messages, now, nMsg, sent, connState,
                 connUser, clients, userVars>>

\* Mutant: a close handler that leaves the registry alone.
WsCloseKeepsEntry(c) ==
  /\ connState[c] = "open"
  /\ connState' = [connState EXCEPT ![c] = "closed"]
  /\ lastOp' = NoOp
  /\ UNCHANGED <<jobVars, rateVars, nReq, msgVars, connUser, clients, pushed, userVars>>

\* ws.on('close'): if (userId) clients.delete(userId).
WsClose(c) ==
  /\ connState[c] = "open"
  /\ connState' = [connState EXCEPT ![c] = "closed"]
  /\ clients' = IF connUser[c] # NULL THEN [clients EXCEPT ![connUser[c]] = NULL]
                ELSE clients
  /\ lastOp' = NoOp
  /\ UNCHANGED <<jobVars, rateVars, nReq, msgVars, connUser, pushed, userVars>>

\* Callers of POST /api/messages in a run: a participant of job 1 and a user
\* who takes part in no job.
MessageSenders == {"r1", "p2"}

\* Auth frames in a run: the first socket is r1's client (it may also send
\* an auth frame without a user id), the second is p1's client.
ChatAuths == {<<"c1", "r1">>, <<"c1", NULL>>, <<"c2", "p1">>}

\* Users whose client puts somebody else's senderId in every payload it
\* sends; the other clients send the chat view's payload.
Impersonators == {"p1", "p2"}

\* The payloads the client of u (NULL: a client that has not said who it
\* is) may send for job j as the n-th message of the run.
PayloadsOf(u, j, n) ==
  {body \in MessageBodies(j, n) :
     \/ body["messageText"] = 0
     \/ (ClaimedSender(body) # NULL) <=> (u \in Impersonators)}

SendMessage ==
  \E u \in MessageSenders, j \in JobIdsInRequests :
    \E body \in PayloadsOf(u, j, nMsg + 1) : SendMessageRoute(u, body)
SendMessageInsert == \E t \in tasks : SendMessageDb(t)
GetMessages == \E j \in JobIdsInRequests : GetMessagesRoute(j)
Connect == \E c \in Conns : WsConnect(c)
AuthFrame == \E a \in ChatAuths : WsAuthFrame(a[1], a[2])
MessageFrame ==
  \E c \in Conns, j \in JobIdsInRequests :
    /\ connUser[c] # NULL
    /\ \E body \in PayloadsOf(connUser[c], j, nMsg + 1) : WsMessageFrame(c, body)
RelayStore == \E t \in tasks : WsStoreMessage(t)
RelayGetJob == \E t \in tasks : WsGetJob(t)
RelayForward == \E t \in tasks : WsForward(t)
Close == \E c \in Conns : WsClose(c)

\* The job table the chat starts from: job 1 of r1, accepted by p1.
ChatJobTable ==
  acceptJob(createJob(<< >>, [title |-> "Fix sink", requesterId |-> "r1"]), 1, "p1")

\* The job table the history starts from: job 1 of r1, accepted by p1, and
\* job 2 of r2, still open.
HistoryJobTable ==
  createJob(ChatJobTable, [title |-> "Fix sink", requesterId |-> "r2"])

InitChat ==
  /\ jobs = ChatJobTable
  /\ inflight = {}
  /\ acceptLog = {}
  /\ lastOp = NoOp
  /\ nReq = 0
  /\ InitChatVars
  /\ InitRatingVars
  /\ InitUserVars

NextChat ==
  \/ SendMessage \/ SendMessageInsert \/ GetMessages
  \/ Connect \/ AuthFrame \/ MessageFrame \/ RelayStore \/ RelayGetJob
  \/ RelayForward \/ Close

\* Messaging over a fixed job table: HTTP sends, history fetches and the
\* relay, within one tick of the database clock.
SpecChat == InitChat /\ [][NextChat]_vars

\* Chat frames from every open socket, the ones that have not said who they
\* are included.
GuestMessageFrame ==
  \E c \in Conns, j \in JobIdsInRequests :
    \E body \in PayloadsOf(connUser[c], j, nMsg + 1) : WsMessageFrame(c, body)

NextGuest ==
  \/ Connect \/ AuthFrame \/ GuestMessageFrame \/ RelayStore \/ RelayGetJob
  \/ RelayForward \/ Close

\* The relay with sockets that send chat frames before any auth frame.
SpecGuest == InitChat /\ [][NextGuest]_vars

NextHistory == Tick \/ SendMessage \/ SendMessageInsert \/ GetMessages

\* The message store over a fixed job table: HTTP sends and history fetches
\* while the database clock advances.
InitHistory ==
  /\ jobs = HistoryJobTable
  /\ inflight = {}
  /\ acceptLog = {}
  /\ lastOp = NoOp
  /\ nReq = 0
  /\ InitChatVars
  /\ InitRatingVars
  /\ InitUserVars

SpecHistory == InitHistory /\ [][NextHistory]_vars

\* The jobs whose chat page is open.
PolledJobs == DOMAIN HistoryJobTable

\* The chat page refetches the history of its job at a fixed interval
\* (refetchInterval: 3000), so the fetch of each open chat is taken again
\* and again.  The database clock stands still here: what a fetch returns
\* does not depend on it.
NextPoll == SendMessage \/ SendMessageInsert \/ GetMessages

SpecPoll ==
  /\ InitHistory
  /\ [][NextPoll]_vars
  /\ \A j \in PolledJobs : WF_vars(GetMessagesRoute(j))

\* -------------------------------------------------------- conversations
\* A row of the users table as a SELECT * returns it, under the password
\* hashes h.
UserRow(h, u) == [id |-> u, role |-> Role[u], passwordHash |-> h[u]]

\* The elements of a set of job ids, in increasing order.
InOrder(S) ==
  CHOOSE f \in [1..Cardinality(S) -> S] :
    \A a, b \in 1..Cardinality(S) : a < b => f[a] < f[b]

\* getConversations, first query: the ids of the jobs WHERE requester_id =
\* :userId OR provider_id = :userId.
userJobs(js, userId) ==
  {j \in DOMAIN js : js[j]["requesterId"] = userId \/ js[j]["providerId"] = userId}

\* Mutant: the first message of the job instead of the last.
firstMessages(ms, jobId) ==
  {i \in DOMAIN ms :
     /\ ms[i]["jobId"] = jobId
     /\ \A k \in DOMAIN ms :
          ms[k]["jobId"] = jobId => ms[i]["createdAt"] <= ms[k]["createdAt"]}

\* getConversations, per job: SELECT ... WHERE job_id = :jobId ORDER BY
\* created_at DESC LIMIT 1.  The rows the query may return (one of those
\* with the greatest created_at), as positions in the table; none when the
\* job has no message.
lastMessages(ms, jobId) ==
  {i \in DOMAIN ms :
     /\ ms[i]["jobId"] = jobId
     /\ \A k \in DOMAIN ms :
          ms[k]["jobId"] = jobId => ms[k]["createdAt"] <= ms[i]["createdAt"]}

\* The summary getConversations pushes for job j of userId when msg is the
\* job's last message; otherUser is the row of the users table with the
\* other participant's id, absent (NULL) when that id is null.
Conversation(js, h, userId, j, msg) ==
  LET otherUserId == IF js[j]["requesterId"] = userId
                       THEN js[j]["providerId"] ELSE js[j]["requesterId"]
  IN [jobId |-> j,
      jobTitle |-> js[j]["title"],
      otherUser |-> IF otherUserId = NULL THEN [id |-> NULL]
                    ELSE UserRow(h, otherUserId),
      lastMessage |-> msg["messageText"],
      lastMessageTime |-> msg["createdAt"],
      unreadCount |-> 0]

\* DatabaseStorage.getConversations: every list the method may return, the
\* jobs in table order.
getConversations(js, ms, h, userId) ==
  LET talked == InOrder({j \in userJobs(js, userId) : lastMessages(ms, j) # {}})
      picks == {f \in [DOMAIN talked -> DOMAIN ms] :
                  \A k \in DOMAIN talked : f[k] \in lastMessages(ms, talked[k])}
  IN { [k \in DOMAIN talked |-> Conversation(js, h, userId, talked[k], ms[f[k]])] :
         f \in picks }

\* GET /api/messages/conversations
GetConversationsRoute(u) ==
  /\ \E result \in getConversations(jobs, messages, passwordHash, u) :
       lastOp' = Resp("conversations", u, 0, 200, Rows(result))
  /\ UNCHANGED <<jobVars, nReq, msgVars, wsVars, rateVars, userVars>>

GetConversations == \E u \in Users : GetConversationsRoute(u)

NextConversations == NextHistory \/ GetConversations

\* The message store with the conversation list.
SpecConversations == InitHistory /\ [][NextConversations]_vars

\* ------------------------------------------------- the relay on its own
\* The WebSocket connections of a relay run.
RelayConns == Conns \cup {"c3"}

\* Auth frames in a relay run: the first socket says it is p2 or r1 (and may
\* say one after the other), the second says it is r1, the third p1.
RelayAuths == {<<"c1", "p2">>, <<"c1", "r1">>, <<"c2", "r1">>, <<"c3", "p1">>}

RelayConnect == \E c \in RelayConns : WsConnect(c)
RelayAuthFrame == \E a \in RelayAuths : WsAuthFrame(a[1], a[2])
RelayMessageFrame ==
  \E c \in RelayConns, j \in DOMAIN jobs :
    /\ connUser[c] # NULL
    /\ \E body \in PayloadsOf(connUser[c], j, nMsg + 1) : WsMessageFrame(c, body)
RelayClose == \E c \in RelayConns : WsClose(c)

InitRelay ==
  /\ jobs = ChatJobTable
  /\ inflight = {}
  /\ acceptLog = {}
  /\ lastOp = NoOp
  /\ nReq = 0
  /\ messages = << >>
  /\ tasks = {}
  /\ now = 0
  /\ nMsg = 0
  /\ sent = {}
  /\ connState = [c \in RelayConns |-> "idle"]
  /\ connUser = [c \in RelayConns |-> NULL]
  /\ clients = [u \in Users |-> NULL]
  /\ pushed = [c \in RelayConns |-> << >>]
  /\ InitRatingVars
  /\ InitUserVars

NextRelay ==
  \/ RelayConnect \/ RelayAuthFrame \/ RelayMessageFrame \/ RelayStore
  \/ RelayGetJob \/ RelayForward \/ RelayClose

\* The relay over a fixed job table: three sockets, chat frames for the
\* stored job, auth frames that may change a socket's user id, closes.
SpecRelay == InitRelay /\ [][NextRelay]_vars

\* -------------------------------------------------------------- ratings
\* Columns of the ratings table.
RatingColumns == {"id", "jobId", "fromUserId", "toUserId", "rating"}

\* Keys insertRatingSchema declares.
InsertRatingKeys == {"jobId", "toUserId", "rating", "comment"}

\* Mutant: the schema without .max(5).
InsertRatingValidNoMax(body) ==
  /\ {"jobId", "toUserId", "rating"} \subseteq DOMAIN body
  /\ 10 <= body["rating"]

\* insertRatingSchema.parse succeeds when jobId, toUserId and rating are
\* present and rating is a number with 1 <= rating <= 5.  A rating is
\* written in tenths (45 is the JSON number 4.5) since z.number() admits
\* fractions.
InsertRatingValid(body) ==
  /\ {"jobId", "toUserId", "rating"} \subseteq DOMAIN body
  /\ 10 <= body["rating"]
  /\ body["rating"] <= 50

\* The value insertRatingSchema.parse returns: the declared keys only.
InsertRatingParse(body) ==
  [k \in (DOMAIN body) \cap InsertRatingKeys |-> body[k]]

\* The values handed to storage.createRating: the parsed body with
\* fromUserId set to the authenticated id.
RatingValues(body, fromUserId) ==
  LET validatedData == InsertRatingParse(body)
  IN [k \in (DOMAIN validatedData) \cup {"fromUserId"} |->
        IF k = "fromUserId" THEN fromUserId ELSE validatedData[k]]

\* The INSERT into ratings succeeds when job_id and to_user_id reference
\* stored rows and the value fits the integer column rating.
RatingInsertHolds(js, insertRating) ==
  /\ insertRating["jobId"] \in DOMAIN js
  /\ insertRating["toUserId"] \in Users
  /\ insertRating["rating"] % 10 = 0

\* createRating, first statement: INSERT INTO ratings VALUES(insertRating).
insertRatingRow(rs, insertRating) ==
  Append(rs, [c \in RatingColumns |->
                IF c = "id" THEN Len(rs) + 1
                ELSE IF c = "rating" THEN insertRating["rating"] \div 10
                ELSE insertRating[c]])

\* Mutant: the scan without its WHERE clause.
providerRatingsAllRows(rs, toUserId) == rs

\* createRating, second statement: SELECT * FROM ratings WHERE to_user_id =
\* :toUserId.
providerRatings(rs, toUserId) ==
  SelectSeq(rs, LAMBDA r : r["toUserId"] = toUserId)

\* providerRatings.reduce((sum, r) => sum + r.rating, 0)
RECURSIVE SumRatings(_)
SumRatings(rows) ==
  IF rows = << >> THEN 0 ELSE Head(rows)["rating"] + SumRatings(Tail(rows))

\* (sum / n).toFixed(2), in hundredths: the nearest multiple of 0.01, the
\* larger one on a tie (a tie needs a quotient k/8 or finer, and those are
\* exact doubles).
toFixed2(sum, n) == (200 * sum + n) \div (2 * n)

\* avgRating.toFixed(2) of the scanned rows.
avgRating(rows) == toFixed2(SumRatings(rows), Len(rows))

\* A rating handler suspended at an await inside storage.createRating.
RateTask(req, u, body, pc, rows) ==
  [req |-> req, body |-> body, values |-> RatingValues(body, u), pc |-> pc,
   rows |-> rows]

\* POST /api/ratings, up to the await of storage.createRating.
RateRoute(u, body) ==
  /\ UNCHANGED <<jobVars, nReq, msgVars, wsVars, ratings, ratingAverage, userVars>>
  /\ IF ~InsertRatingValid(body)
       THEN /\ lastOp' = Resp("rate", u, 0, 400, body)
            /\ rateTasks' = rateTasks
       ELSE /\ Len(ratings) + Cardinality(rateTasks) < MaxRatings
            /\ LET req == CHOOSE k \in 1..(MaxRatings + 1) :
                            \A t \in rateTasks : t.req # k
               IN rateTasks' = rateTasks \cup {RateTask(req, u, body, "insert", << >>)}
            /\ lastOp' = NoOp

\* createRating at its INSERT; when the INSERT throws, the route's catch
\* block answers 400.
RateInsert(t) ==
  /\ t \in rateTasks /\ t.pc = "insert"
  /\ UNCHANGED <<jobVars, nReq, msgVars, wsVars, ratingAverage, userVars>>
  /\ IF RatingInsertHolds(jobs, t.values)
       THEN /\ ratings' = insertRatingRow(ratings, t.values)
            /\ rateTasks' = (rateTasks \ {t}) \cup {[t EXCEPT !.pc = "select"]}
            /\ lastOp' = NoOp
       ELSE /\ ratings' = ratings
            /\ rateTasks' = rateTasks \ {t}
            /\ lastOp' = Resp("rate", t.values["fromUserId"], t.values["jobId"],
                              400, t.body)

\* createRating at its SELECT of the provider's rating rows.
RateSelect(t) ==
  /\ t \in rateTasks /\ t.pc = "select"
  /\ rateTasks' = (rateTasks \ {t}) \cup
       {[t EXCEPT !.pc = "update",
                  !.rows = providerRatings(ratings, t.values["toUserId"])]}
  /\ lastOp' = NoOp
  /\ UNCHANGED <<jobVars, nReq, msgVars, wsVars, ratings, ratingAverage, userVars>>

\* createRating at its UPDATE providers SET rating_average WHERE user_id =
\* :toUserId (no row matches when the target has no provider profile), and
\* the route's 201.
RateUpdate(t) ==
  /\ t \in rateTasks /\ t.pc = "update"
  /\ rateTasks' = rateTasks \ {t}
  /\ ratingAverage' =
       IF t.values["toUserId"] \in DOMAIN ratingAverage
         THEN [ratingAverage EXCEPT ![t.values["toUserId"]] = avgRating(t.rows)]
         ELSE ratingAverage
  /\ lastOp' = Resp("rate", t.values["fromUserId"], t.values["jobId"], 201, t.body)
  /\ UNCHANGED <<jobVars, nReq, msgVars, wsVars, ratings, userVars>>

\* Callers of POST /api/ratings in a run: the requester of job 1 and the
\* requester of job 2.
RatingSenders == {"r1", "r2"}

\* Bodies a client may send to POST /api/ratings: ratings 0, 1, 4.5, 5 and 6
\* of the provider of the completed job 1, a rating of another provider for
\* job 1, a rating for job 2, and a body without a rating.
RatingBodies ==
  { [jobId |-> 1, toUserId |-> "p1", rating |-> r] : r \in {0, 10, 45, 50, 60} }
    \cup { [jobId |-> 1, toUserId |-> "p2", rating |-> 50],
           [jobId |-> 2, toUserId |-> "p2", rating |-> 10],
           [jobId |-> 1, toUserId |-> "p1"] }

\* A rating request arrives when no other rating request is being handled.
SubmitRatingSerial ==
  /\ rateTasks = {}
  /\ \E u \in RatingSenders, body \in RatingBodies : RateRoute(u, body)
RatingInsert == \E t \in rateTasks : RateInsert(t)
RatingSelect == \E t \in rateTasks : RateSelect(t)
RatingUpdate == \E t \in rateTasks : RateUpdate(t)

\* The job table the ratings start from: job 1 of r1, accepted by p1 and
\* completed, and job 2 of r2, accepted by p2 and not completed.
RatingJobTable ==
  acceptJob(
    createJob(
      updateJob(ChatJobTable, 1, [status |-> "completed"]),
      [title |-> "Fix sink", requesterId |-> "r2"]),
    2, "p2")

InitRating ==
  /\ jobs = RatingJobTable
  /\ inflight = {}
  /\ acceptLog = {}
  /\ lastOp = NoOp
  /\ nReq = 0
  /\ InitChatVars
  /\ InitRatingVars
  /\ InitUserVars

NextRating == SubmitRatingSerial \/ RatingInsert \/ RatingSelect \/ RatingUpdate

\* Rating submissions handled one at a time over a fixed job table.
SpecRating == InitRating /\ [][NextRating]_vars

\* Rating requests that are in flight together: r1 rates the provider of
\* the completed job 1 with 1, r2 rates the same provider with 5.
ConcurrentRatings ==
  { <<"r1", [jobId |-> 1, toUserId |-> "p1", rating |-> 10]>>,
    <<"r2", [jobId |-> 1, toUserId |-> "p1", rating |-> 50]>> }

\* A rating request arrives, whatever other rating requests are being
\* handled.
SubmitRating == \E s \in ConcurrentRatings : RateRoute(s[1], s[2])

NextRatingConcurrent == SubmitRating \/ RatingInsert \/ RatingSelect \/ RatingUpdate

\* Rating submissions whose statements interleave: createRating runs its
\* INSERT, SELECT and UPDATE outside a transaction, each behind an await.
SpecRatingConcurrent == InitRating /\ [][NextRatingConcurrent]_vars

\* ---------------------------------------------------------------- claims
Terminal == {"completed", "cancelled"}

\* The step just taken answered a request of kind op.
Answered(op) == lastOp'.op = op

\* C1: when two or more distinct providers have had their accept requests on
\* the same stored job answered (none still in flight), exactly one of them
\* got a success, every other got 404/409, and the job's providerId is the
\* winner's id.
C1_AcceptRaceOneWinner ==
  \A j \in DOMAIN jobs :
    LET done == {e \in acceptLog : e.job = j /\ e.stored /\ Role[e.user] = "provider"}
        wins == {e \in done : e.code = 200}
    IN (/\ Cardinality({e.user : e \in done}) >= 2
        /\ \A p \in inflight : p[2] # j)
       => /\ Cardinality(wins) = 1
          /\ \A e \in done \ wins : e.code \in {404, 409}
          /\ \A e \in wins : jobs[j]["providerId"] = e.user

\* C2: a job whose status is open or offered has no provider assigned.
C2_OpenHasNoProvider ==
  \A j \in DOMAIN jobs :
    jobs[j]["status"] \in {"open", "offered"} => jobs[j]["providerId"] = NULL

\* C3: an accept request by a provider on a job that is not open, or that
\* already has a provider, fails and leaves providerId and status unchanged.
C3_AcceptNonOpenFails ==
  [][ (/\ Answered("accept")
       /\ Role[lastOp'.user] = "provider"
       /\ lastOp'.job \in DOMAIN jobs
       /\ \/ jobs[lastOp'.job]["status"] # "open"
          \/ jobs[lastOp'.job]["providerId"] # NULL)
      => /\ lastOp'.code \notin {200, 201}
         /\ jobs'[lastOp'.job]["providerId"] = jobs[lastOp'.job]["providerId"]
         /\ jobs'[lastOp'.job]["status"] = jobs[lastOp'.job]["status"] ]_vars

\* C4: an accept request by a requester-role caller, and a create request by
\* a provider-role caller, are answered 403 and change no job.
C4_RoleGating ==
  [][ /\ (Answered("accept") /\ Role[lastOp'.user] = "requester")
           => (lastOp'.code = 403 /\ jobs' = jobs)
      /\ (Answered("create") /\ Role[lastOp'.user] = "provider")
           => (lastOp'.code = 403 /\ jobs' = jobs) ]_vars

\* C4 witness: a requester's accept request on a stored job was answered 403.
C4_Witness ==
  /\ lastOp.op = "accept"
  /\ Role[lastOp.user] = "requester"
  /\ lastOp.code = 403
  /\ lastOp.job \in DOMAIN jobs

\* C5: a job just created is open, has no provider and belongs to the
\* caller, whatever status / providerId / requesterId the body carried.
C5_CreatedJobIsOpen ==
  (lastOp.op = "create" /\ lastOp.code = 201)
    => /\ lastOp.job = Len(jobs)
       /\ jobs[lastOp.job]["status"] = "open"
       /\ jobs[lastOp.job]["providerId"] = NULL
       /\ jobs[lastOp.job]["requesterId"] = lastOp.user

\* C5 witness: a job was created from a body that carried a status, a
\* providerId and somebody else's requesterId.
C5_Witness ==
  /\ lastOp.op = "create"
  /\ lastOp.code = 201
  /\ {"status", "providerId", "requesterId"} \subseteq DOMAIN lastOp.body
  /\ lastOp.body["requesterId"] # lastOp.user

\* C6: a status update by a caller who is not the job's assigned provider
\* does not succeed and leaves the status unchanged.
C6_OnlyAssignedProviderUpdates ==
  [][ (/\ Answered("patch")
       /\ lastOp'.job \in DOMAIN jobs
       /\ lastOp'.user # jobs[lastOp'.job]["providerId"])
      => /\ lastOp'.code # 200
         /\ jobs'[lastOp'.job]["status"] = jobs[lastOp'.job]["status"] ]_vars

\* C7: once a job is completed or cancelled, no step changes its status or
\* its providerId.
C7_TerminalImmutable ==
  [][ \A j \in DOMAIN jobs :
        jobs[j]["status"] \in Terminal
          => /\ jobs'[j]["status"] = jobs[j]["status"]
             /\ jobs'[j]["providerId"] = jobs[j]["providerId"] ]_vars

\* The transition table: the immediate successor on
\* open -> accepted -> enroute -> onsite -> completed, or cancelled from a
\* non-terminal status.
TransitionAllowed(from, to) ==
  \/ <<from, to>> \in {<<"open", "accepted">>, <<"accepted", "enroute">>,
                       <<"enroute", "onsite">>, <<"onsite", "completed">>}
  \/ (to = "cancelled" /\ from \notin Terminal)

\* C8: every status change of a job follows the transition table.
C8_TransitionTable ==
  [][ \A j \in DOMAIN jobs :
        jobs'[j]["status"] # jobs[j]["status"]
          => TransitionAllowed(jobs[j]["status"], jobs'[j]["status"]) ]_vars

\* C9: a history fetch returns every message of its job whose send (over
\* HTTP or over the relay) had succeeded before it, whether or not the
\* counterpart was connected and whether or not a push happened.
C9_SentIsInHistory ==
  lastOp.op = "history"
    => \A m \in sent :
         m.jobId = lastOp.job
           => \E k \in DOMAIN lastOp.body.rows : lastOp.body.rows[k]["messageText"] = m.text

\* C9 witness: a history fetch returned a message that r1 sent over the
\* relay while the counterpart's socket was never connected, the handler
\* has ended and nothing was pushed.
C9_Witness ==
  /\ lastOp.op = "history"
  /\ connState["c2"] = "idle"
  /\ tasks = {}
  /\ \A c \in Conns : pushed[c] = << >>
  /\ \E m \in sent :
       /\ m.via = "ws"
       /\ m.jobId = lastOp.job
       /\ \E k \in DOMAIN lastOp.body.rows : lastOp.body.rows[k]["messageText"] = m.text

\* Ids of the rows of a list of messages.
MessageIds(rows) == {rows[k]["id"] : k \in DOMAIN rows}

\* C10: a history fetch returns exactly the messages stored for its job,
\* each once, in non-decreasing created_at order.
C10_HistoryExactAndOrdered ==
  lastOp.op = "history"
    => LET result == lastOp.body.rows
           stored == {i \in DOMAIN messages : messages[i]["jobId"] = lastOp.job}
       IN /\ MessageIds(result) = {messages[i]["id"] : i \in stored}
          /\ Len(result) = Cardinality(stored)
          /\ \A a, b \in DOMAIN result :
               a < b => result[a]["createdAt"] <= result[b]["createdAt"]

\* C10 witness: a history fetch returned two messages of one job that were
\* stored in the opposite order of their created_at.
C10_Witness ==
  /\ lastOp.op = "history"
  /\ Len(lastOp.body.rows) = 2
  /\ Len(messages) = 2
  /\ messages[1]["jobId"] = lastOp.job
  /\ messages[2]["jobId"] = lastOp.job
  /\ messages[1]["createdAt"] > messages[2]["createdAt"]

\* C11: a rating submission whose rating is outside 1..5 is answered with
\* the validation error, writes no rating row and leaves every provider's
\* ratingAverage unchanged; every stored rating row has 1 <= rating <= 5.
C11_RatingBound ==
  [][ /\ (/\ Answered("rate")
          /\ "rating" \in DOMAIN lastOp'.body
          /\ (lastOp'.body["rating"] < 10 \/ lastOp'.body["rating"] > 50))
        => /\ lastOp'.code = 400
           /\ ratings' = ratings
           /\ ratingAverage' = ratingAverage
      /\ \A i \in DOMAIN ratings' :
           1 <= ratings'[i]["rating"] /\ ratings'[i]["rating"] <= 5 ]_vars

\* C11 witness: a rating of 6 for the completed job was rejected when its
\* provider already had a rating row and a non-zero average.
C11_Witness ==
  /\ lastOp.op = "rate"
  /\ lastOp.code = 400
  /\ "rating" \in DOMAIN lastOp.body
  /\ lastOp.body["rating"] = 60
  /\ lastOp.body["jobId"] = 1
  /\ lastOp.user = "r1"
  /\ ratingAverage[lastOp.body["toUserId"]] > 0
  /\ Len(ratings) = 1

\* C12: the senderId of every stored message is the identity its request
\* (HTTP) or its frame's connection (relay) was authenticated as when it was
\* sent, whatever senderId the payload carried.
C12_SenderIsAuthenticated ==
  \A i \in DOMAIN messages :
    \E m \in sent :
      /\ m.text = messages[i]["messageText"]
      /\ m.jobId = messages[i]["jobId"]
      /\ messages[i]["senderId"] = m.auth

\* C12 witness: one message sent over HTTP and one sent over the relay are
\* stored, and the payload of each carried somebody else's senderId.
C12_Witness ==
  /\ \E m \in sent : m.via = "http" /\ m.claimed \notin {NULL, m.auth}
  /\ \E m \in sent : m.via = "ws" /\ m.claimed \notin {NULL, m.auth}
  /\ Len(messages) = 2

\* The stored message whose text is n.
MessageWithText(n) ==
  messages[CHOOSE i \in DOMAIN messages : messages[i]["messageText"] = n]

\* C13: every push of the relay carries a message whose sender is a
\* participant of the message's job, and is addressed to the other
\* participant: the provider when the sender is the requester, the requester
\* when the sender is the provider, never the sender.
C13_PushOnlyToCounterpart ==
  \A c \in DOMAIN pushed :
    \A k \in DOMAIN pushed[c] :
      LET msg == MessageWithText(pushed[c][k].text)
          job == jobs[msg["jobId"]]
          to == pushed[c][k].to
      IN /\ msg["senderId"] \in {job["requesterId"], job["providerId"]}
         /\ to # msg["senderId"]
         /\ msg["senderId"] = job["requesterId"] => to = job["providerId"]
         /\ msg["senderId"] = job["providerId"] => to = job["requesterId"]

\* The other participant of a job, NULL for a user who takes no part in it.
Counterpart(job, u) ==
  IF u = job["requesterId"] THEN job["providerId"]
  ELSE IF u = job["providerId"] THEN job["requesterId"]
  ELSE NULL

\* The handler of the sent message m ends in this step: its HTTP request is
\* answered, or its relay handler returns.
HandlerEnds(m) ==
  \/ m.via = "http" /\ m \in sent' \ sent
  \/ /\ m.via = "ws"
     /\ \E t \in tasks \ tasks' :
          t.kind = "ws" /\ t.pc # "insert" /\ t.values["messageText"] = m.text

\* C14: when the handler of a message sent by a participant of its job ends
\* while the counterpart has an open connection in the registry, that
\* connection has received a push carrying the message.
C14_PushOnSend ==
  [][ \A m \in sent' :
        LET cp == Counterpart(jobs[m.jobId], m.auth)
        IN (/\ HandlerEnds(m)
            /\ cp # NULL
            /\ clients[cp] # NULL
            /\ clients'[cp] = clients[cp]
            /\ connState[clients[cp]] = "open"
            /\ connState'[clients[cp]] = "open")
           => \E k \in DOMAIN pushed'[clients[cp]] :
                pushed'[clients[cp]][k].text = m.text ]_vars

\* C15: when a connection that has a user id closes, the registry entry of
\* that user id is removed in the same step; and no push ever goes to a
\* connection that is not open.
C15_CloseRemovesEntry ==
  [][ /\ \A c \in DOMAIN connState :
           (connState[c] = "open" /\ connState'[c] = "closed" /\ connUser[c] # NULL)
             => clients'[connUser[c]] = NULL
      /\ \A c \in DOMAIN pushed :
           pushed'[c] # pushed[c] => connState[c] = "open" /\ connState'[c] = "open"
    ]_vars

\* C15 witness: p1's connection received the first message of r1, then
\* closed; its registry entry is gone, and the second message of r1 was
\* stored and its handler has ended without a push to the closed connection.
C15_Witness ==
  /\ connState["c3"] = "closed"
  /\ connUser["c3"] = "p1"
  /\ clients["p1"] = NULL
  /\ tasks = {}
  /\ Len(pushed["c3"]) = 1
  /\ pushed["c3"][1].text = 1
  /\ \E m \in sent : m.text = 2 /\ m.via = "ws" /\ m.auth = "r1" /\ m.jobId = 1

\* C20: the registry maps a user id to one connection; a connection that
\* takes a user id becomes that user's entry, replacing whichever connection
\* was registered before; and a push addressed to a user goes to the
\* connection registered for that user and to no other.
C20_SecondAuthReplaces ==
  [][ /\ \A c \in DOMAIN connUser :
           (connUser'[c] # connUser[c] /\ connUser'[c] # NULL)
             => clients'[connUser'[c]] = c
      /\ \A c \in DOMAIN pushed :
           pushed'[c] # pushed[c]
             => /\ clients[pushed'[c][Len(pushed'[c])].to] = c
                /\ \A d \in DOMAIN pushed : d # c => pushed'[d] = pushed[d]
    ]_vars

\* C20 witness: two open connections both have the user id r1, the registry
\* entry of r1 is the second one, and a message of p1 was pushed to the
\* second and not to the first.
C20_Witness ==
  /\ connState["c1"] = "open" /\ connUser["c1"] = "r1"
  /\ connState["c2"] = "open" /\ connUser["c2"] = "r1"
  /\ clients["r1"] = "c2"
  /\ pushed["c1"] = << >>
  /\ \E k \in DOMAIN pushed["c2"] :
       /\ pushed["c2"][k].to = "r1"
       /\ MessageWithText(pushed["c2"][k].text)["senderId"] = "p1"

\* The job-detail fetch just answered was made by a user who is neither the
\* requester nor the assigned provider of the (stored) job.
DetailByNonParticipant ==
  /\ lastOp.op = "detail"
  /\ lastOp.job \in DOMAIN jobs
  /\ lastOp.user # jobs[lastOp.job]["requesterId"]
  /\ lastOp.user # jobs[lastOp.job]["providerId"]

\* C16 as stated: a job-detail fetch by a user who is neither the requester
\* nor the assigned provider is answered 200 while the job is open and 403
\* in every other status.
C16_NonParticipantOnlyWhileOpen ==
  DetailByNonParticipant
    => IF jobs[lastOp.job]["status"] = "open"
         THEN lastOp.code = 200
         ELSE lastOp.code = 403

\* C16 amended: a job-detail fetch by a user who is neither the requester,
\* nor the assigned provider, nor an admin is answered 200 while the job is
\* open and 403 in every other status; an admin's fetch is answered 200 in
\* every status.
C16_NonParticipantNonAdminOnlyWhileOpen ==
  DetailByNonParticipant
    => IF jobs[lastOp.job]["status"] = "open" \/ Role[lastOp.user] = "admin"
         THEN lastOp.code = 200 /\ lastOp.body = jobs[lastOp.job]
         ELSE lastOp.code = 403

\* C16 witness: a provider who is not the assigned one was refused the
\* detail of a job that another provider has accepted.
C16_Witness ==
  /\ DetailByNonParticipant
  /\ lastOp.user = "p2"
  /\ jobs[lastOp.job]["providerId"] = "p1"
  /\ jobs[lastOp.job]["status"] = "accepted"
  /\ lastOp.code = 403

\* C17: the sender of every stored message is the requester or the
\* assigned provider of the message's job.
C17_SenderIsParticipant ==
  \A i \in DOMAIN messages :
    LET job == jobs[messages[i]["jobId"]]
    IN messages[i]["senderId"] \in {job["requesterId"], job["providerId"]}

\* C18: every rating row refers to a completed job and was submitted by
\* that job's requester.
C18_RatingOnlyByRequesterOfCompleted ==
  \A i \in DOMAIN ratings :
    LET job == jobs[ratings[i]["jobId"]]
    IN /\ job["status"] = "completed"
       /\ ratings[i]["fromUserId"] = job["requesterId"]

\* The rating rows addressed to user p.
RowsTo(p) == SelectSeq(ratings, LAMBDA r : r["toUserId"] = p)

\* C19: when rating submissions run one at a time, after a submission is
\* answered 201 the ratingAverage of its target provider is the mean of all
\* the rating rows addressed to that provider, duplicates included, rounded
\* to two decimals: it lies within half a hundredth of the exact mean.
C19_AverageIsMean ==
  (lastOp.op = "rate" /\ lastOp.code = 201)
    => LET p == lastOp.body["toUserId"]
           n == Len(RowsTo(p))
           sum == SumRatings(RowsTo(p))
           d == n * ratingAverage[p] - 100 * sum
       IN /\ n > 0
          /\ 2 * d <= n
          /\ -n < 2 * d

\* C19 witness: one user rated the same job twice with the same value, the
\* provider has three rating rows (5, 5 and 1 in some order), and the last
\* submission left the provider's average at 3.67.
C19_Witness ==
  /\ lastOp.op = "rate"
  /\ lastOp.code = 201
  /\ lastOp.body["toUserId"] = "p1"
  /\ Len(RowsTo("p1")) = 3
  /\ ratingAverage["p1"] = 367
  /\ \E i, k \in DOMAIN ratings :
       /\ i # k
       /\ ratings[i]["jobId"] = ratings[k]["jobId"]
       /\ ratings[i]["fromUserId"] = ratings[k]["fromUserId"]
       /\ ratings[i]["toUserId"] = ratings[k]["toUserId"]
       /\ ratings[i]["rating"] = ratings[k]["rating"]

\* The record of the send that stored the message with text n.
SentWithText(n) == CHOOSE m \in sent : m.text = n

\* Both messages were sent as chat frames of one connection (each user id
\* is used by one connection at most) for one job.
SameConnectionAndJob(a, b) ==
  a.via = "ws" /\ b.via = "ws" /\ a.auth = b.auth /\ a.jobId = b.jobId

\* C21: chat frames of one connection for one job take effect in arrival
\* order (a frame that arrives later carries a larger text): they are stored
\* in that order, pushed to the counterpart's connection in that order, and
\* each is pushed to the counterpart of the user id the connection had when
\* it arrived.
C21_FramesInArrivalOrder ==
  /\ \A i, k \in DOMAIN messages :
       LET a == SentWithText(messages[i]["messageText"])
           b == SentWithText(messages[k]["messageText"])
       IN (i < k /\ SameConnectionAndJob(a, b)) => a.text < b.text
  /\ \A c \in DOMAIN pushed :
       \A i, k \in DOMAIN pushed[c] :
         LET a == SentWithText(pushed[c][i].text)
             b == SentWithText(pushed[c][k].text)
         IN /\ (i < k /\ SameConnectionAndJob(a, b)) => a.text < b.text
            /\ pushed[c][i].to = Counterpart(jobs[a.jobId], a.auth)

\* The positions of the messages stored for job j.
MessagesOf(j) == {i \in DOMAIN messages : messages[i]["jobId"] = j}

\* C22: the conversation list of u has exactly one summary for each job in
\* which u is requester or assigned provider and that has a message, and no
\* other; each summary carries a message of the job with the greatest
\* created_at, the other participant as otherUser (none when the job has no
\* other participant), and unreadCount 0.
C22_ConversationList ==
  lastOp.op = "conversations"
    => LET u == lastOp.user
           result == lastOp.body.rows
           expected == {j \in DOMAIN jobs :
                          /\ u \in {jobs[j]["requesterId"], jobs[j]["providerId"]}
                          /\ MessagesOf(j) # {}}
       IN /\ {result[k].jobId : k \in DOMAIN result} = expected
          /\ Len(result) = Cardinality(expected)
          /\ \A k \in DOMAIN result :
               LET s == result[k]
               IN /\ \E i \in MessagesOf(s.jobId) :
                       /\ messages[i]["messageText"] = s.lastMessage
                       /\ messages[i]["createdAt"] = s.lastMessageTime
                  /\ \A i \in MessagesOf(s.jobId) :
                       messages[i]["createdAt"] <= s.lastMessageTime
                  /\ s.otherUser.id = Counterpart(jobs[s.jobId], u)
                  /\ s.unreadCount = 0

\* C22 witness: the list of a participant of job 1 was fetched when job 1
\* had two messages of different created_at, the later one stored first.
C22_Witness ==
  /\ lastOp.op = "conversations"
  /\ lastOp.user = "p1"
  /\ Len(lastOp.body.rows) = 1
  /\ Len(messages) = 2
  /\ messages[1]["jobId"] = 1 /\ messages[2]["jobId"] = 1
  /\ messages[1]["createdAt"] > messages[2]["createdAt"]
  /\ lastOp.body.rows[1].lastMessage = messages[1]["messageText"]

\* C23: a PATCH /api/jobs/:id leaves every column but status of every job as
\* it was, and touches no job but the addressed one, whatever the body holds.
C23_PatchChangesOnlyStatus ==
  [][(nReq' # nReq /\ lastOp'.op = "patch")
       => /\ DOMAIN jobs' = DOMAIN jobs
          /\ \A j \in DOMAIN jobs :
               /\ \A c \in JobColumns \ {"status"} : jobs'[j][c] = jobs[j][c]
               /\ j # lastOp'.job => jobs'[j] = jobs[j]]_vars

\* C23 witness: a PATCH whose body carried a providerId beside the status
\* was applied, and the job has the new status and not that provider.
C23_Witness ==
  /\ lastOp.op = "patch" /\ lastOp.code = 200
  /\ "providerId" \in DOMAIN lastOp.body
  /\ jobs[lastOp.job]["status"] = lastOp.body["status"]
  /\ jobs[lastOp.job]["providerId"] # lastOp.body["providerId"]

\* C24: with the history of each job polled again and again, every stored
\* message eventually appears in a fetched history of its job, with no relay
\* connection involved.
C24_StoredEventuallyPolled ==
  \A j \in PolledJobs : \A n \in 1..MaxMessages :
    (\E i \in DOMAIN messages :
        messages[i]["jobId"] = j /\ messages[i]["messageText"] = n)
      ~> (/\ lastOp.op = "history"
          /\ lastOp.job = j
          /\ \E k \in DOMAIN lastOp.body.rows : lastOp.body.rows[k]["messageText"] = n)

\* C24 witness: a poll returned a stored message of a job while no relay
\* connection was ever opened and nothing was pushed.
C24_Witness ==
  /\ lastOp.op = "history"
  /\ \A c \in Conns : connState[c] = "idle" /\ pushed[c] = << >>
  /\ clients = [u \in Users |-> NULL]
  /\ \E k \in DOMAIN lastOp.body.rows :
       /\ lastOp.body.rows[k]["jobId"] = lastOp.job
       /\ lastOp.body.rows[k]["senderId"] # Counterpart(jobs[lastOp.job], lastOp.body.rows[k]["senderId"])
       /\ Counterpart(jobs[lastOp.job], lastOp.body.rows[k]["senderId"]) # NULL

\* C25: the close of a connection leaves the registry entry of every user
\* whose entry points to another, still open connection as it is: a user
\* whose latest authenticated connection is open keeps the entry pointing to
\* it.
C25_CloseKeepsNewerEntry ==
  [][\A c \in DOMAIN connState :
       (connState[c] = "open" /\ connState'[c] = "closed")
         => \A u \in Users :
              (clients[u] # NULL /\ clients[u] # c /\ connState[clients[u]] = "open")
                => clients'[u] = clients[u]]_vars

\* C26: every registry entry u -> c points to an open connection whose
\* current user id is u, and no connection is the entry of two user ids.
C26_RegistryConsistent ==
  /\ \A u \in Users :
       clients[u] # NULL
         => connState[clients[u]] = "open" /\ connUser[clients[u]] = u
  /\ \A u, v \in Users :
       (clients[u] # NULL /\ clients[u] = clients[v]) => u = v

\* C27: a chat frame on a connection that has no user id changes nothing:
\* no message row, no handler, no push, no registry change.  Every relay
\* handler starts on a connection that has a user id, under that id, and
\* rows and pushes come from such handlers only.
C27_UnauthenticatedFrameIgnored ==
  [][ /\ lastOp'.op = "frame"
           => UNCHANGED <<jobVars, nReq, msgVars, wsVars, rateVars, userVars>>
      /\ \A t \in tasks' \ tasks :
           t.pc = "insert" => connUser[t.conn] # NULL /\ t.auth = connUser[t.conn]
      /\ (messages' # messages \/ pushed' # pushed)
           => \E t \in tasks \ tasks' : t.kind = "ws" /\ t.auth # NULL
    ]_vars

\* C27 witness: a socket without a user id sent a valid chat frame for job 1
\* while the job's provider was registered on an open socket; no row was
\* stored, no handler runs and nothing was pushed.
C27_Witness ==
  /\ lastOp.op = "frame"
  /\ InsertMessageValid(lastOp.body)
  /\ lastOp.body["jobId"] = 1
  /\ connState["c1"] = "open" /\ connUser["c1"] = NULL
  /\ clients["p1"] = "c2" /\ connState["c2"] = "open"
  /\ messages = << >> /\ tasks = {} /\ sent = {}
  /\ \A c \in Conns : pushed[c] = << >>

\* C28: once every rating submission in flight has completed, the
\* ratingAverage of each rated provider is the mean of all the rating rows
\* addressed to that provider, rounded to two decimals.
C28_AverageIsMeanAfterConcurrent ==
  rateTasks = {}
    => \A p \in DOMAIN ratingAverage :
         LET n == Len(RowsTo(p))
             sum == SumRatings(RowsTo(p))
             d == n * ratingAverage[p] - 100 * sum
         IN n > 0 => (2 * d <= n /\ -n < 2 * d)

\* C29: a job whose status is accepted, enroute, onsite or completed has a
\* provider.
C29_WorkedJobHasProvider ==
  \A j \in DOMAIN jobs :
    jobs[j]["status"] \in {"accepted", "enroute", "onsite", "completed"}
      => jobs[j]["providerId"] # NULL

\* C30: no response depends on a password hash: the conversation list a user
\* is sent is a list the same tables would yield under any other assignment
\* of password hashes to the accounts.
C30_ResponseIndependentOfPasswordHash ==
  lastOp.op = "conversations"
    => \A h \in [Accounts -> Hashes] :
         lastOp.body.rows \in getConversations(jobs, messages, h, lastOp.user)

====
